---- MODULE Spec2Model ----
(***************************************************************************)
(* Tribud: schema-driven configuration validation (ConfOpt, ConfigManager) *)
(* and the filesystem backup handler (DirHandler, Container), modelled     *)
(* from src/src/tribud/model.py and src/src/tribud/tribud.py.              *)
(***************************************************************************)
EXTENDS Integers, Sequences, FiniteSets, TLC

VARIABLES
    op,               \* name of the last operation performed ("init" before any)
    ret,              \* what the last operation returned or raised
    config_file,      \* the configuration file on disk: missing, malformed or a mapping
    options,          \* ConfigManager._options, once a manager is constructed
    built,            \* TRUE once ConfigManager.__init__ has returned normally
    opt,              \* the ConfOpt a check was applied to
    rule,             \* the option_definition a check was applied with
    keys_definition,  \* the schema sanitize is called with
    fs,               \* the filesystem: absolute path -> entry
    readonly,         \* directories in which the process may not create entries
    root,             \* the path DirHandler was constructed with, as given
    bckup_dst,        \* DirHandler.bckup_dst
    connected,        \* TRUE once DirHandler.connect has returned normally
    src,              \* the absolute source path of the last add
    fs0,              \* the filesystem before the last operation
    cret,             \* what the Container method wrapping the last operation returned
    added,            \* the inputs main has called add with, in order
    query             \* the path the last get_key was called with

vars == <<op, ret, config_file, options, built, opt, rule, keys_definition,
          fs, readonly, root, bckup_dst, connected, src, fs0, cret, added, query>>
cfgvars == <<config_file, options, built, opt, rule, keys_definition, query>>
fsvars == <<fs, readonly, root, bckup_dst, connected, src, fs0, cret, added>>

\* ------------------------------------------------------------------ bounds
MaxStrLen == 2        \* longest string value, in characters
MaxListLen == 1       \* longest list value
MaxCfgSize == 2       \* most keys (at all nesting levels) in a configuration
MaxRules == 2         \* most rules in a schema
PathMax == 6          \* longest path the filesystem accepts, in components
MaxSymlinks == 3      \* symbolic links followed in one path resolution

\* ------------------------------------------------------------ Python values
Chars == {"/", "a"}

RECURSIVE SeqsUpTo(_, _)
SeqsUpTo(S, n) ==
    IF n = 0 THEN {<<>>}
    ELSE LET shorter == SeqsUpTo(S, n - 1)
         IN  shorter \cup {Append(s, x) : s \in shorter, x \in S}

Strings == SeqsUpTo(Chars, MaxStrLen)

\* A Python value: str, list (of str), int, dict (ordered key/value entries).
StrVal(s) == [type |-> "str", s |-> s, items |-> <<>>, entries |-> <<>>]
ListVal(l) == [type |-> "list", s |-> <<>>, items |-> l, entries |-> <<>>]
IntVal == [type |-> "int", s |-> <<>>, items |-> <<>>, entries |-> <<>>]
DictVal(e) == [type |-> "dict", s |-> <<>>, items |-> <<>>, entries |-> e]

Values == {StrVal(s) : s \in Strings}
          \cup {ListVal(l) : l \in SeqsUpTo(Strings, MaxListLen)}
          \cup {IntVal}

\* What a call returns or raises.
NoRet == [kind |-> "none", code |-> 0, exc |-> "", items |-> <<>>, path |-> <<>>]
RetNone == [kind |-> "None", code |-> 0, exc |-> "", items |-> <<>>, path |-> <<>>]
RetInt(n) == [kind |-> "int", code |-> n, exc |-> "", items |-> <<>>, path |-> <<>>]
RetPath(p) == [kind |-> "path", code |-> 0, exc |-> "", items |-> <<>>, path |-> p]
RetBool(b) == [kind |-> "bool", code |-> IF b THEN 1 ELSE 0, exc |-> "",
               items |-> <<>>, path |-> <<>>]
Raise(e) == [kind |-> "raise", code |-> 0, exc |-> e, items |-> <<>>, path |-> <<>>]

\* ------------------------------------------------------------- path_check
\* pathlib.PurePosixPath(s).is_absolute(): the path has a root.
is_absolute(s) == Len(s) > 0 /\ s[1] = "/"

\* pathlib.Path(v) accepts only str (or os.PathLike): a list or an int raises
\* TypeError; otherwise the result is whether the path is absolute.
path_check(v) ==
    IF v.type # "str" THEN "TypeError"
    ELSE IF ~is_absolute(v.s) THEN "False"
    ELSE "True"

\* A rule's check function applied to a value: model.path_check, or None
\* (tribud.py's "log" rule), and calling None raises TypeError.
\* Any callable may be given: "accept" and "reject" stand for callables that
\* return True and False on every value.
Preds == {"path_check", "None", "accept", "reject"}
CallPred(pred, v) ==
    IF pred = "None" THEN "TypeError"
    ELSE IF pred = "accept" THEN "True"
    ELSE IF pred = "reject" THEN "False"
    ELSE path_check(v)

\* ---------------------------------------------------------------- flatten
\* flatten that descends with the parent it was given, not the new parent.
RECURSIVE flatten_same_parent(_, _, _)
flatten_same_parent(dictio, output, parent) ==
    IF dictio = <<>> THEN output
    ELSE LET cle == Head(dictio).k
             valeur == Head(dictio).v
             out1 == IF valeur.type = "dict"
                     THEN flatten_same_parent(valeur.entries, output, parent)
                     ELSE Append(output, [parent |-> parent, key |-> cle, value |-> valeur])
         IN  flatten_same_parent(Tail(dictio), out1, parent)

RECURSIVE flatten(_, _, _)
flatten(dictio, output, parent) ==
    IF dictio = <<>> THEN output
    ELSE LET cle == Head(dictio).k
             valeur == Head(dictio).v
             out1 == IF valeur.type = "dict"
                     THEN flatten(valeur.entries, output, Append(parent, cle))
                     ELSE Append(output, [parent |-> parent, key |-> cle, value |-> valeur])
         IN  flatten(Tail(dictio), out1, parent)

\* ---------------------------------------------------------------- ConfOpt
\* opt_parent is a tuple of keys, or not a tuple (None): [tuple, segs].
Tuple(p) == [tuple |-> TRUE, segs |-> p]
NotATuple == [tuple |-> FALSE, segs |-> <<>>]

ConfOpt(opt_parent, opt_key, opt_value) ==
    [option |-> IF ~opt_parent.tuple THEN <<opt_key>>
                ELSE Append(opt_parent.segs, opt_key),
     value |-> opt_value]

get_value(self) == self.value

Front(s) == SubSeq(s, 1, Len(s) - 1)

\* option[:-1] == self.option[:-1] and option[-1] == self.option[-1];
\* option[-1] of the empty tuple raises IndexError.
is_key(self, option) ==
    IF Front(option) = Front(self.option)
    THEN IF option = <<>> THEN "IndexError"
         ELSE IF option[Len(option)] = self.option[Len(self.option)] THEN "True"
         ELSE "False"
    ELSE "False"

\* option_definition = (type, parent, check function)
Definition(t, parent, pred) == [type |-> t, parent |-> parent, pred |-> pred]

isinstance(v, t) == v.type = t

check_bad_order(self, option_definition) ==
    IF option_definition.parent = Front(self.option)
    THEN IF isinstance(self.value, option_definition.type)
         THEN LET r == CallPred(option_definition.pred, self.value)
              IN  IF r = "TypeError" THEN Raise("TypeError")
                  ELSE IF r = "True" THEN RetInt(1)
                  ELSE RetInt(4)
         ELSE RetInt(2)
    ELSE RetInt(3)

check(self, option_definition) ==
    IF isinstance(self.value, option_definition.type)
    THEN IF option_definition.parent = Front(self.option)
         THEN LET r == CallPred(option_definition.pred, self.value)
              IN  IF r = "TypeError" THEN Raise("TypeError")
                  ELSE IF r = "True" THEN RetInt(1)
                  ELSE RetInt(4)
         ELSE RetInt(3)
    ELSE RetInt(2)

\* ---------------------------------------------------------- ConfigManager
\* __init__: open the file (IOError when it cannot be opened), json.load it
\* (JSONDecodeError when malformed), then one ConfOpt per flattened leaf.
RECURSIVE MakeOptions(_)
MakeOptions(flat) ==
    IF flat = <<>> THEN <<>>
    ELSE <<ConfOpt(Tuple(Head(flat).parent), Head(flat).key, Head(flat).value)>>
         \o MakeOptions(Tail(flat))

\* sanitize: the body is "pass": nothing is checked and None is returned.
sanitize(self_options, keys_def) == RetNone

\* get_key(option): the first option of the manager, in the order of
\* _options, whose is_key(option) is true, or None; an exception of is_key
\* propagates.  The outcome is [ret, found].
GetOut(r, o) == [ret |-> r, found |-> o]
RetOpt == [kind |-> "ConfOpt", code |-> 0, exc |-> "", items |-> <<>>, path |-> <<>>]

RECURSIVE get_key(_, _)
get_key(self_options, option) ==
    IF self_options = <<>> THEN GetOut(RetNone, ConfOpt(NotATuple, "", IntVal))
    ELSE LET r == is_key(Head(self_options), option)
         IN  IF r = "IndexError"
             THEN GetOut(Raise("IndexError"), ConfOpt(NotATuple, "", IntVal))
             ELSE IF r = "True" THEN GetOut(RetOpt, Head(self_options))
             ELSE get_key(Tail(self_options), option)

\* The earlier ConfigManager.__init__ (tribud/model.py): both failures end
\* in sys.exit(), that is, SystemExit is raised; otherwise the parsed
\* mapping is kept as self.config.
ConfigManager_legacy(file) ==
    IF file.state = "missing" THEN Raise("SystemExit")
    ELSE IF file.state = "malformed" THEN Raise("SystemExit")
    ELSE RetNone

\* ------------------------------------------------------------- filesystem
\* An absolute path is the sequence of its components below "/"; <<>> is "/".
DirE == [kind |-> "dir", data |-> "", target |-> <<>>]
FileE(d) == [kind |-> "file", data |-> d, target |-> <<>>]
LinkE(t) == [kind |-> "link", data |-> "", target |-> t]
FifoE == [kind |-> "fifo", data |-> "", target |-> <<>>]

Last(s) == s[Len(s)]
Put(f, q, e) == [x \in DOMAIN f \cup {q} |-> IF x = q THEN e ELSE f[x]]
IsDirAt(f, p) == p = <<>> \/ (p \in DOMAIN f /\ f[p].kind = "dir")
KindAt(f, p) == IF p = <<>> THEN "dir" ELSE f[p].kind

\* stat: the entry a path resolves to, following every symbolic link, as a
\* set: {} when the path does not resolve (ENOENT, ENOTDIR, ELOOP).
RECURSIVE Real(_, _, _)
Real(f, p, fuel) ==
    IF p = <<>> THEN {<<>>}
    ELSE LET par == Real(f, Front(p), fuel)
         IN  IF par = {} THEN {}
             ELSE LET pp == CHOOSE x \in par : TRUE
                      q == Append(pp, Last(p))
                  IN  IF ~IsDirAt(f, pp) \/ q \notin DOMAIN f THEN {}
                      ELSE IF f[q].kind = "link"
                           THEN IF fuel = 0 THEN {}
                                ELSE Real(f, f[q].target, fuel - 1)
                      ELSE {q}

\* lstat: where the entry named by p lives, its last component not followed:
\* {} when the parent does not resolve to a directory.
LPath(f, p) ==
    IF p = <<>> THEN {<<>>}
    ELSE LET par == Real(f, Front(p), MaxSymlinks)
         IN  IF par = {} THEN {}
             ELSE LET pp == CHOOSE x \in par : TRUE
                  IN  IF IsDirAt(f, pp) THEN {Append(pp, Last(p))} ELSE {}

Stat(f, p) == Real(f, p, MaxSymlinks)
The(S) == CHOOSE x \in S : TRUE
lexists(f, p) == LPath(f, p) # {} /\ (The(LPath(f, p)) = <<>> \/ The(LPath(f, p)) \in DOMAIN f)
exists(f, p) == Stat(f, p) # {}
is_file(f, p) == exists(f, p) /\ KindAt(f, The(Stat(f, p))) = "file"
isdir(f, p) == exists(f, p) /\ KindAt(f, The(Stat(f, p))) = "dir"
is_fifo(f, p) == exists(f, p) /\ KindAt(f, The(Stat(f, p))) = "fifo"
is_symlink(f, p) == p # <<>> /\ lexists(f, p) /\ f[The(LPath(f, p))].kind = "link"
samefile(f, a, b) == exists(f, a) /\ exists(f, b) /\ Stat(f, a) = Stat(f, b)

\* The outcome of a filesystem primitive: the filesystem after it and the
\* exception it raised ("" when none).
Out(f, e) == [fs |-> f, exc |-> e]

\* Creating the entry e at location q (already lstat-resolved).
Create(f, q, e) ==
    IF Front(q) \in readonly THEN Out(f, "PermissionError")
    ELSE IF Len(q) > PathMax THEN Out(f, "OSError")
    ELSE Out(Put(f, q, e), "")

\* os.mkdir
mkdir(f, p) ==
    IF LPath(f, p) = {} THEN Out(f, "FileNotFoundError")
    ELSE LET q == The(LPath(f, p))
         IN  IF q = <<>> \/ q \in DOMAIN f THEN Out(f, "FileExistsError")
             ELSE Create(f, q, DirE)

\* os.makedirs(name, exist_ok=exist_ok)
RECURSIVE makedirs(_, _, _)
makedirs(f, name, exist_ok) ==
    IF name = <<>>
    THEN IF exist_ok THEN Out(f, "") ELSE Out(f, "FileExistsError")
    ELSE LET head == Front(name)
             r1 == IF ~exists(f, head) THEN makedirs(f, head, exist_ok)
                   ELSE Out(f, "")
         IN  IF r1.exc \notin {"", "FileExistsError"} THEN r1
             ELSE LET m == mkdir(r1.fs, name)
                  IN  IF m.exc = "" THEN m
                      ELSE IF ~exist_ok \/ ~isdir(r1.fs, name) THEN Out(r1.fs, m.exc)
                      ELSE Out(r1.fs, "")

\* os.symlink(target, dst)
symlink(f, target, dst) ==
    IF LPath(f, dst) = {} THEN Out(f, "FileNotFoundError")
    ELSE LET q == The(LPath(f, dst))
         IN  IF q = <<>> \/ q \in DOMAIN f THEN Out(f, "FileExistsError")
             ELSE Create(f, q, LinkE(target))

\* open(dst, "wb") and the write of data: symbolic links at dst are followed,
\* an existing regular file is truncated and rewritten.
RECURSIVE write_file(_, _, _, _)
write_file(f, dst, data, fuel) ==
    IF LPath(f, dst) = {} THEN Out(f, "FileNotFoundError")
    ELSE LET q == The(LPath(f, dst))
         IN  IF q = <<>> THEN Out(f, "IsADirectoryError")
             ELSE IF q \notin DOMAIN f THEN Create(f, q, FileE(data))
             ELSE IF f[q].kind = "link"
                  THEN IF fuel = 0 THEN Out(f, "OSError")
                       ELSE write_file(f, f[q].target, data, fuel - 1)
             ELSE IF f[q].kind = "dir" THEN Out(f, "IsADirectoryError")
             ELSE Out(Put(f, q, FileE(data)), "")

\* shutil.copyfile(src, dst, follow_symlinks=follow)
copyfile(f, s, dst, follow) ==
    IF samefile(f, s, dst) THEN Out(f, "SameFileError")
    ELSE IF is_fifo(f, s) \/ is_fifo(f, dst) THEN Out(f, "SpecialFileError")
    ELSE IF ~follow /\ is_symlink(f, s)
         THEN symlink(f, f[The(LPath(f, s))].target, dst)
    ELSE IF ~exists(f, s) THEN Out(f, "FileNotFoundError")
    ELSE IF isdir(f, s) THEN Out(f, "IsADirectoryError")
    ELSE write_file(f, dst, f[The(Stat(f, s))].data, MaxSymlinks)

\* shutil.copy2(src, dst, follow_symlinks=follow): into dst when dst is a
\* directory, under the source's base name.
copy2(f, s, dst, follow) ==
    copyfile(f, s, IF isdir(f, dst) /\ s # <<>> THEN Append(dst, Last(s)) ELSE dst,
             follow)

\* The names of the entries of the directory at location r (os.scandir,
\* os.listdir); the order in which they are visited is not specified.
listdir(f, r) == {Last(q) : q \in {x \in DOMAIN f : x # <<>> /\ Front(x) = r}}

\* shutil.copytree(src, dst, symlinks=True): the entries are listed, dst is
\* created (it must not exist), every entry is copied, the failures are
\* collected and raised together as shutil.Error at the end.  An outcome is
\* [fs, exc, errs], errs the source paths in the collected errors.  When
\* the tree is nested deeper than the longest path, either the filesystem
\* refuses the path (an OSError, collected like any other) or the
\* interpreter's recursion limit is reached first: RecursionError is not an
\* OSError, copytree does not collect it, and it ends the whole copy.
TreeOut(f, e, errs) == [fs |-> f, exc |-> e, errs |-> errs]

RECURSIVE copytree(_, _, _)
RECURSIVE CopyEntries(_, _, _, _, _, _, _)
RECURSIVE CopyEntry(_, _, _, _, _, _)

\* copytree without symlinks=True: a link is copied as what it points to.
CopyEntry_follow(f, snap, s, r, dst, n) ==
    LET srcname == Append(s, n)
        dstname == Append(dst, n)
    IN  IF isdir(f, srcname)
        THEN {IF o.exc = "RecursionError" THEN o
              ELSE TreeOut(o.fs, "", IF o.exc = "" THEN {}
                                     ELSE IF o.exc = "Error" THEN o.errs
                                     ELSE {srcname}) :
                  o \in copytree(f, srcname, dstname)}
        ELSE LET o == copy2(f, srcname, dstname, TRUE)
             IN  {TreeOut(o.fs, "", IF o.exc = "" THEN {} ELSE {srcname})}

CopyEntry(f, snap, s, r, dst, n) ==
    LET srcname == Append(s, n)
        dstname == Append(dst, n)
        kind == snap[Append(r, n)].kind
    IN  IF kind = "link"
        THEN LET o == IF is_symlink(f, srcname)
                      THEN symlink(f, f[The(LPath(f, srcname))].target, dstname)
                      ELSE Out(f, "OSError")
             IN  {TreeOut(o.fs, "", IF o.exc = "" THEN {} ELSE {srcname})}
        ELSE IF kind = "dir"
        THEN {IF o.exc = "RecursionError" THEN o
              ELSE TreeOut(o.fs, "", IF o.exc = "" THEN {}
                                     ELSE IF o.exc = "Error" THEN o.errs
                                     ELSE {srcname}) :
                  o \in copytree(f, srcname, dstname)}
        ELSE LET o == copy2(f, srcname, dstname, TRUE)
             IN  {TreeOut(o.fs, "", IF o.exc = "" THEN {} ELSE {srcname})}

CopyEntries(f, snap, s, r, dst, names, errs) ==
    IF names = {} THEN {TreeOut(f, "", errs)}
    ELSE UNION {UNION {IF o.exc = "RecursionError" THEN {o}
                       ELSE CopyEntries(o.fs, snap, s, r, dst, names \ {n},
                                        errs \cup o.errs) :
                           o \in CopyEntry(f, snap, s, r, dst, n)} :
                    n \in names}

copytree(f, s, dst) ==
    IF ~exists(f, s) THEN {TreeOut(f, "FileNotFoundError", {})}
    ELSE IF ~isdir(f, s) THEN {TreeOut(f, "NotADirectoryError", {})}
    ELSE LET r == The(Stat(f, s))
             names == listdir(f, r)
             m == makedirs(f, dst, FALSE)
         IN  IF m.exc # ""
             THEN {TreeOut(m.fs, m.exc, {})}
                  \cup (IF Len(dst) > PathMax
                        THEN {TreeOut(f, "RecursionError", {})} ELSE {})
             ELSE {IF o.exc = "RecursionError" THEN o
                   ELSE TreeOut(o.fs, IF o.errs = {} THEN "" ELSE "Error", o.errs) :
                       o \in CopyEntries(m.fs, f, s, r, dst, names, {})}

\* ------------------------------------------------------------- DirHandler
\* A path as given to the program: absolute or relative to the working
\* directory.
Abs(p) == [abs |-> TRUE, segs |-> p]
Rel(p) == [abs |-> FALSE, segs |-> p]
Cwd == <<"s">>
abspath(path) == IF path.abs THEN path ELSE Abs(Cwd \o path.segs)

\* DirHandler.__init__
DirHandler(path) == abspath(path)

\* DirHandler.is_connected: os.access(bckup_dst, os.W_OK), whether the path
\* resolves to an entry the process may write to.
is_connected(self, f) ==
    exists(f, self.segs) /\ The(Stat(f, self.segs)) \notin readonly

\* DirHandler.connect: an outcome [fs, exc].
connect(self, f) ==
    IF self.abs THEN makedirs(f, self.segs, TRUE)
    ELSE Out(f, "")

\* Container: is_connected returns what the handler's method returns;
\* connect and add call the handler's method and drop its value (an
\* exception of the handler propagates).
Container_is_connected(handler_ret) == handler_ret
Container_connect(handler_ret) ==
    IF handler_ret.kind = "raise" THEN handler_ret ELSE RetNone
Container_add(handler_ret) ==
    IF handler_ret.kind = "raise" THEN handler_ret ELSE RetNone

\* DirHandler._copytree: the set of its outcomes [fs, exc, code], code the
\* value returned when nothing is raised.
CopyOut(f, e, c) == [fs |-> f, exc |-> e, code |-> c]

RECURSIVE _copytree(_, _, _)
RECURSIVE IterChildren(_, _, _, _)

IterChildren(f, s, dst, names) ==
    IF names = {} THEN {CopyOut(f, "", 0)}
    ELSE UNION {
           LET child == Append(s, n)
               outs == IF is_file(f, child) \/ is_symlink(f, child)
                       THEN LET c == copy2(f, child, dst, FALSE)
                            IN  {CopyOut(c.fs, c.exc, 0)}
                       ELSE _copytree(f, child, Append(dst, n))
           IN  UNION {IF o.exc # "" THEN {o}
                      ELSE IterChildren(o.fs, s, dst, names \ {n}) : o \in outs} :
           n \in names}

\* _copytree with a naive collision handling: when the copy of a file or a
\* link collides, the destination entry is removed (os.remove, the entry
\* the destination path leads to) and the copy is tried once more.
remove(f, p) ==
    IF lexists(f, p) /\ p # <<>>
    THEN [x \in DOMAIN f \ {The(LPath(f, p))} |-> f[x]]
    ELSE f

_copytree_retry(f, s, dst) ==
    IF is_file(f, s) \/ is_symlink(f, s)
    THEN LET m == makedirs(f, dst, TRUE)
         IN  IF m.exc = "PermissionError" THEN {CopyOut(m.fs, "", 1)}
             ELSE IF m.exc # "" THEN {CopyOut(m.fs, m.exc, 0)}
             ELSE LET c == copy2(m.fs, s, dst, FALSE)
                  IN  IF c.exc \in {"SameFileError", "FileExistsError"}
                      THEN LET entry == IF isdir(m.fs, dst) THEN Append(dst, Last(s))
                                        ELSE dst
                               c2 == copy2(remove(m.fs, entry), s, dst, FALSE)
                           IN  {CopyOut(c2.fs, c2.exc, 0)}
                      ELSE {CopyOut(c.fs, c.exc, 0)}
    ELSE IF exists(f, dst)
    THEN IF ~exists(f, s) THEN {CopyOut(f, "FileNotFoundError", 0)}
         ELSE IF ~isdir(f, s) THEN {CopyOut(f, "NotADirectoryError", 0)}
         ELSE IterChildren(f, s, dst, listdir(f, The(Stat(f, s))))
    ELSE {CopyOut(o.fs, o.exc, 0) : o \in copytree(f, s, dst)}

_copytree(f, s, dst) ==
    IF is_file(f, s) \/ is_symlink(f, s)
    THEN LET m == makedirs(f, dst, TRUE)
         IN  IF m.exc = "PermissionError" THEN {CopyOut(m.fs, "", 1)}
             ELSE IF m.exc # "" THEN {CopyOut(m.fs, m.exc, 0)}
             ELSE LET c == copy2(m.fs, s, dst, FALSE)
                  IN  {CopyOut(c.fs, c.exc, 0)}
    ELSE IF exists(f, dst)
    THEN IF ~exists(f, s) THEN {CopyOut(f, "FileNotFoundError", 0)}
         ELSE IF ~isdir(f, s) THEN {CopyOut(f, "NotADirectoryError", 0)}
         ELSE IterChildren(f, s, dst, listdir(f, The(Stat(f, s))))
    ELSE {CopyOut(o.fs, o.exc, 0) : o \in copytree(f, s, dst)}

\* The directories of the mirrored destination: every component of the
\* source path, less the last one when the source is a file.
dst_dirs_all(f, src_path) == src_path

dst_dirs(f, src_path) ==
    IF is_file(f, src_path) THEN Front(src_path) ELSE src_path

\* DirHandler.add: the set of its outcomes [fs, ret]: the value of _copytree
\* is dropped and dst_path is returned.
add(self, f, path) ==
    LET src_path == abspath(path).segs
        dst_path == self.segs \o dst_dirs(f, src_path)
    IN  {[fs |-> o.fs,
          ret |-> IF o.exc = "" THEN RetPath(dst_path) ELSE Raise(o.exc)] :
             o \in _copytree(f, src_path, dst_path)}

\* ---------------------------------------------------- the backup run: Spec
\* The source trees: regular files, directories, symbolic links to a file,
\* to a directory, to an ancestor directory and to a missing target outside
\* the trees, and a named pipe.
SourceTree ==
    (<<"s">> :> DirE)
    @@ (<<"s", "d">> :> DirE) @@ (<<"s", "d", "g">> :> FileE("G"))
    @@ (<<"s", "d", "r">> :> LinkE(<<"s", "d">>))
    @@ (<<"s", "lf">> :> LinkE(<<"s", "d", "g">>))
    @@ (<<"t">> :> DirE) @@ (<<"t", "p">> :> FifoE)
    @@ (<<"t", "x">> :> LinkE(<<"o">>))

\* The destination roots a handler is constructed with.
Roots == {Abs(<<"bk">>), Abs(<<"bk", "b">>)}

\* The paths given to add.
Inputs ==
    {Abs(<<"s">>), Abs(<<"s", "d">>), Abs(<<"s", "d", "g">>),
     Abs(<<"s", "d", "r">>), Abs(<<"s", "d", "r", "g">>), Abs(<<"s", "lf">>),
     Abs(<<"t">>), Abs(<<"t", "p">>), Abs(<<"t", "x">>), Abs(<<"n">>),
     Rel(<<"lf">>)}

NoSchema == <<>>
NoOpt == ConfOpt(NotATuple, "", IntVal)
NoRule == Definition("", <<>>, "None")
NoFile == [state |-> "missing", content |-> <<>>]

Init ==
    /\ op = "init"
    /\ ret = NoRet
    /\ config_file = NoFile
    /\ options = <<>>
    /\ built = FALSE
    /\ opt = NoOpt
    /\ rule = NoRule
    /\ keys_definition = NoSchema
    /\ query = <<>>
    /\ fs = SourceTree
    /\ readonly = {}
    /\ root \in Roots
    /\ bckup_dst = DirHandler(root)
    /\ connected = FALSE
    /\ src = <<>>
    /\ fs0 = SourceTree
    /\ cret = NoRet
    /\ added = <<>>

Connect ==
    LET o == connect(bckup_dst, fs)
    IN  /\ op' = "connect"
        /\ fs' = o.fs
        /\ fs0' = fs
        /\ ret' = IF o.exc = "" THEN RetNone ELSE Raise(o.exc)
        /\ cret' = Container_connect(ret')
        /\ connected' = (connected \/ o.exc = "")
        /\ UNCHANGED <<readonly, root, bckup_dst, src, added>>
        /\ UNCHANGED cfgvars

Add(path) ==
    \E o \in add(bckup_dst, fs, path) :
        /\ op' = "add"
        /\ fs' = o.fs
        /\ fs0' = fs
        /\ ret' = o.ret
        /\ cret' = Container_add(o.ret)
        /\ src' = abspath(path).segs
        /\ UNCHANGED <<readonly, root, bckup_dst, connected, added>>
        /\ UNCHANGED cfgvars

IsConnected ==
    /\ op' = "is_connected"
    /\ ret' = RetBool(is_connected(bckup_dst, fs))
    /\ cret' = Container_is_connected(ret')
    /\ fs0' = fs
    /\ UNCHANGED <<fs, readonly, root, bckup_dst, connected, src, added>>
    /\ UNCHANGED cfgvars

Next ==
    \/ Connect
    \/ IsConnected
    \/ \E path \in Inputs : Add(path)

Spec == Init /\ [][Next]_vars

\* ------------------------------- connecting to any given root: SpecConnect
\* The destination root is given as an absolute path or as a path relative
\* to the working directory; a few sources are then added.
ConnectRoots == Roots \cup {Rel(<<"bk">>), Rel(<<"bk", "b">>)}
ConnectInputs ==
    {Abs(<<"s", "d">>), Abs(<<"s", "d", "g">>), Abs(<<"s", "lf">>), Abs(<<"t", "x">>)}

InitConnect ==
    /\ op = "init"
    /\ ret = NoRet
    /\ config_file = NoFile
    /\ options = <<>>
    /\ built = FALSE
    /\ opt = NoOpt
    /\ rule = NoRule
    /\ keys_definition = NoSchema
    /\ query = <<>>
    /\ fs = SourceTree
    /\ readonly = {}
    /\ root \in ConnectRoots
    /\ bckup_dst = DirHandler(root)
    /\ connected = FALSE
    /\ src = <<>>
    /\ fs0 = SourceTree
    /\ cret = NoRet
    /\ added = <<>>

NextConnect ==
    \/ Connect
    \/ IsConnected
    \/ \E path \in ConnectInputs : Add(path)

SpecConnect == InitConnect /\ [][NextConnect]_vars

FsIdle ==
    /\ fs = SourceTree
    /\ readonly = {}
    /\ root = Abs(<<>>)
    /\ bckup_dst = Abs(<<>>)
    /\ connected = FALSE
    /\ src = <<>>
    /\ fs0 = SourceTree
    /\ cret = NoRet
    /\ added = <<>>

\* ------------------------------------------- ConfOpt.check alone: SpecCheck
ParentArgs ==
    {NotATuple, Tuple(<<>>), Tuple(<<"archive">>), Tuple(<<"archive", "output">>)}
OptKeys == {"dir", "log"}
ConfOpts == {ConfOpt(par, k, v) : par \in ParentArgs, k \in OptKeys, v \in Values}
Types == {"str", "list", "int"}
Definitions ==
    {Definition(t, par, pred) :
         t \in Types, par \in {<<>>, <<"archive">>, <<"archive", "output">>},
         pred \in Preds}

InitCheck ==
    /\ op = "init"
    /\ ret = NoRet
    /\ config_file = NoFile
    /\ options = <<>>
    /\ built = FALSE
    /\ opt \in ConfOpts
    /\ rule = NoRule
    /\ keys_definition = NoSchema
    /\ query = <<>>
    /\ FsIdle

Check(option_definition) ==
    /\ op' = "check"
    /\ rule' = option_definition
    /\ ret' = check(opt, option_definition)
    /\ UNCHANGED <<config_file, options, built, opt, keys_definition, query>>
    /\ UNCHANGED fsvars

NextCheck == \E d \in Definitions : Check(d)

SpecCheck == InitCheck /\ [][NextCheck]_vars

\* ------------------------------------- ConfigManager and sanitize: SpecConfig
AbsS == <<"/", "a">>
RelS == <<"a">>
ConfigLeaves == {StrVal(AbsS), StrVal(RelS), ListVal(<<AbsS>>)}
CfgKeys == {"archive", "input", "log"}

KeySet(m) == {m[i].k : i \in 1..Len(m)}

\* The nested mappings of at most n keys in all.
RECURSIVE Mappings(_)
Mappings(n) ==
    IF n = 0 THEN {<<>>}
    ELSE {<<>>} \cup UNION {
           LET firsts == IF i = 0 THEN ConfigLeaves \cup {DictVal(<<>>)}
                         ELSE {DictVal(d) : d \in Mappings(i)}
               rests == Mappings(n - 1 - i)
           IN  UNION {{<<[k |-> k, v |-> v]>> \o rest :
                          k \in CfgKeys \ KeySet(rest), v \in firsts} :
                      rest \in rests} :
           i \in 0..(n - 1)}

ConfigFiles ==
    {NoFile, [state |-> "malformed", content |-> <<>>]}
    \cup {[state |-> "ok", content |-> m] : m \in Mappings(MaxCfgSize)}

\* keys_definition: key -> (mandatory, (type, parent, check function)), in
\* the order of the dictionary.
SchemaKeys == {"input", "log"}
SchemaRules ==
    {[key |-> k, mandatory |-> m, def |-> Definition(t, par, "path_check")] :
         k \in SchemaKeys, m \in BOOLEAN, t \in {"str", "list"},
         par \in {<<>>, <<"archive">>}}
Schemas ==
    {s \in SeqsUpTo(SchemaRules, MaxRules) :
         \A i, j \in 1..Len(s) : i # j => s[i].key # s[j].key}

InitConfig ==
    /\ op = "init"
    /\ ret = NoRet
    /\ config_file \in ConfigFiles
    /\ options = <<>>
    /\ built = FALSE
    /\ opt = NoOpt
    /\ rule = NoRule
    /\ keys_definition \in Schemas
    /\ query = <<>>
    /\ FsIdle

\* ConfigManager.__init__
Construct ==
    /\ op = "init"
    /\ op' = "ConfigManager"
    /\ IF config_file.state = "missing"
       THEN ret' = Raise("IOError") /\ UNCHANGED <<options, built>>
       ELSE IF config_file.state = "malformed"
       THEN ret' = Raise("JSONDecodeError") /\ UNCHANGED <<options, built>>
       ELSE /\ ret' = RetNone
            /\ options' = MakeOptions(flatten(config_file.content, <<>>, <<>>))
            /\ built' = TRUE
    /\ UNCHANGED <<config_file, opt, rule, keys_definition, query>>
    /\ UNCHANGED fsvars

Sanitize ==
    /\ built
    /\ op' = "sanitize"
    /\ ret' = sanitize(options, keys_definition)
    /\ UNCHANGED cfgvars
    /\ UNCHANGED fsvars

NextConfig ==
    \/ Construct
    \/ Sanitize

SpecConfig == InitConfig /\ [][NextConfig]_vars

\* --------------------------- constructing a manager, looking up: SpecLookup
\* The paths get_key is called with: tuples of keys, the empty tuple included.
Queries == {<<>>} \cup {<<k>> : k \in CfgKeys} \cup {<<k, l>> : k, l \in CfgKeys}

InitLookup ==
    /\ op = "init"
    /\ ret = NoRet
    /\ config_file \in ConfigFiles
    /\ options = <<>>
    /\ built = FALSE
    /\ opt = NoOpt
    /\ rule = NoRule
    /\ keys_definition = NoSchema
    /\ query = <<>>
    /\ FsIdle

ConstructLegacy ==
    /\ op = "init"
    /\ op' = "ConfigManager_legacy"
    /\ ret' = ConfigManager_legacy(config_file)
    /\ UNCHANGED cfgvars
    /\ UNCHANGED fsvars

GetKey(option) ==
    /\ built
    /\ op' = "get_key"
    /\ query' = option
    /\ LET g == get_key(options, option)
       IN  ret' = g.ret /\ opt' = g.found
    /\ UNCHANGED <<config_file, options, built, rule, keys_definition>>
    /\ UNCHANGED fsvars

NextLookup ==
    \/ Construct
    \/ ConstructLegacy
    \/ \E option \in Queries : GetKey(option)

SpecLookup == InitLookup /\ [][NextLookup]_vars

\* ----------------------------------------------------- a run of main: SpecMain
MaxInputs == 2        \* longest list of inputs in a configuration of a run

\* The path a string denotes: its components between the "/", absolute when
\* the string starts with "/".
RECURSIVE Name(_)
Name(cs) == IF cs = <<>> THEN "" ELSE Head(cs) \o Name(Tail(cs))

RECURSIVE Split(_, _, _)
Split(s, cur, acc) ==
    IF s = <<>> THEN IF cur = <<>> THEN acc ELSE Append(acc, Name(cur))
    ELSE IF Head(s) = "/"
         THEN Split(Tail(s), <<>>, IF cur = <<>> THEN acc ELSE Append(acc, Name(cur)))
    ELSE Split(Tail(s), Append(cur, Head(s)), acc)

PathOf(s) == IF is_absolute(s) THEN Abs(Split(s, <<>>, <<>>)) ELSE Rel(Split(s, <<>>, <<>>))

\* tribud.CONFIG_KEYS_DEFINITION
CONFIG_KEYS_DEFINITION ==
    << [key |-> "input", mandatory |-> TRUE,
        def |-> Definition("list", <<"archive">>, "path_check")],
       [key |-> "dir", mandatory |-> TRUE,
        def |-> Definition("str", <<"archive", "output">>, "path_check")],
       [key |-> "log", mandatory |-> TRUE,
        def |-> Definition("str", <<>>, "None")] >>

\* What `for files in toarchive.value` iterates over: the items of a list,
\* the characters of a string.
Files(v) ==
    IF v.type = "list" THEN v.items
    ELSE [i \in 1..Len(v.s) |-> <<v.s[i]>>]

\* An outcome of main: the filesystem, what main returned or raised, the
\* inputs add was called with, the handler it constructed.
MainOut(f, r, a, rt, h, c) ==
    [fs |-> f, ret |-> r, added |-> a, root |-> rt, bckup_dst |-> h, connected |-> c]

\* for files in toarchive.value: err.extend(backup.add(files))
RECURSIVE MainLoop(_, _, _, _)
MainLoop(handler, f, files, done) ==
    IF files = <<>> THEN {[fs |-> f, ret |-> RetInt(0), added |-> done]}
    ELSE UNION {
           LET c == Container_add(o.ret)
               done1 == Append(done, Head(files))
           IN  IF c.kind = "raise" THEN {[fs |-> o.fs, ret |-> c, added |-> done1]}
               ELSE IF c.kind # "list"
               THEN {[fs |-> o.fs, ret |-> Raise("TypeError"), added |-> done1]}
               ELSE MainLoop(handler, o.fs, Tail(files), done1) :
           o \in add(handler, f, PathOf(Head(files)))}

main(file, f) ==
    LET stop(r) == {MainOut(f, r, <<>>, Abs(<<>>), Abs(<<>>), FALSE)}
    IN  IF file.state # "ok" THEN stop(Raise("SystemExit"))
        ELSE
        LET opts == MakeOptions(flatten(file.content, <<>>, <<>>))
            non_compliant_option == sanitize(opts, CONFIG_KEYS_DEFINITION)
        IN  IF non_compliant_option.kind # "list" THEN stop(Raise("TypeError"))
            ELSE
            LET bckdir == get_key(opts, <<"archive", "output", "dir">>)
                toarchive == get_key(opts, <<"archive", "input">>)
            IN  IF bckdir.ret = RetNone THEN stop(Raise("AttributeError"))
                ELSE IF bckdir.found.value.type # "str" THEN stop(Raise("TypeError"))
                ELSE
                LET rt == PathOf(bckdir.found.value.s)
                    handler == DirHandler(rt)
                    c == connect(handler, f)
                    halt(r) == {MainOut(c.fs, r, <<>>, rt, handler, c.exc = "")}
                IN  IF c.exc # "" THEN halt(Raise(c.exc))
                    ELSE IF toarchive.ret = RetNone THEN halt(Raise("AttributeError"))
                    ELSE IF toarchive.found.value.type \notin {"list", "str"}
                    THEN halt(Raise("TypeError"))
                    ELSE {MainOut(o.fs, o.ret, o.added, rt, handler, TRUE) :
                              o \in MainLoop(handler, c.fs,
                                             Files(toarchive.found.value), <<>>)}

\* The configurations of a run: the inputs and the backup directory.
InG == <<"/", "s", "/", "d", "/", "g">>
InP == <<"/", "t", "/", "p">>
InN == <<"/", "n">>
InLf == <<"l", "f">>
DirBk == <<"/", "b", "k">>
DirBkB == <<"/", "b", "k", "/", "b">>
DirRel == <<"b", "k">>

Entry(k, v) == [k |-> k, v |-> v]
MainConfigs ==
    {NoFile, [state |-> "malformed", content |-> <<>>],
     [state |-> "ok", content |-> <<>>]}
    \cup {[state |-> "ok",
           content |-> <<Entry("archive", DictVal(
               <<Entry("input", inp),
                 Entry("output", DictVal(<<Entry("dir", StrVal(d))>>))>>))>>] :
              inp \in {ListVal(l) : l \in SeqsUpTo({InG, InP, InN, InLf}, MaxInputs)}
                      \cup {StrVal(InG)},
              d \in {DirBk, DirBkB, DirRel}}

InitMain ==
    /\ op = "init"
    /\ ret = NoRet
    /\ config_file \in MainConfigs
    /\ options = <<>>
    /\ built = FALSE
    /\ opt = NoOpt
    /\ rule = NoRule
    /\ keys_definition = CONFIG_KEYS_DEFINITION
    /\ query = <<>>
    /\ FsIdle

Main ==
    /\ op = "init"
    /\ op' = "main"
    /\ \E o \in main(config_file, fs) :
           /\ fs' = o.fs
           /\ ret' = o.ret
           /\ added' = o.added
           /\ root' = o.root
           /\ bckup_dst' = o.bckup_dst
           /\ connected' = o.connected
    /\ fs0' = fs
    /\ UNCHANGED <<readonly, src, cret>>
    /\ UNCHANGED cfgvars

NextMain == Main

SpecMain == InitMain /\ [][NextMain]_vars

\* ------------------ backing up into read-only directories: SpecReadonly
\* The backup directory is left from an earlier run, and the process may
\* not create entries in some of its directories.
BackupTree ==
    (<<"bk">> :> DirE) @@ (<<"bk", "b">> :> DirE) @@ (<<"bk", "s">> :> DirE)

ReadonlyDirs == SUBSET {<<"bk">>, <<"bk", "b">>, <<"bk", "s">>}

ReadonlyInputs ==
    {Abs(<<"s">>), Abs(<<"s", "d">>), Abs(<<"s", "d", "g">>), Abs(<<"s", "lf">>),
     Abs(<<"t">>), Abs(<<"t", "x">>)}

InitReadonly ==
    /\ op = "init"
    /\ ret = NoRet
    /\ config_file = NoFile
    /\ options = <<>>
    /\ built = FALSE
    /\ opt = NoOpt
    /\ rule = NoRule
    /\ keys_definition = NoSchema
    /\ query = <<>>
    /\ fs = SourceTree @@ BackupTree
    /\ readonly \in ReadonlyDirs
    /\ root \in Roots
    /\ bckup_dst = DirHandler(root)
    /\ connected = FALSE
    /\ src = <<>>
    /\ fs0 = fs
    /\ cret = NoRet
    /\ added = <<>>

NextReadonly ==
    \/ Connect
    \/ IsConnected
    \/ \E path \in ReadonlyInputs : Add(path)

SpecReadonly == InitReadonly /\ [][NextReadonly]_vars

\* ------------ a destination root outside or inside a source: SpecFrame
\* The root is /bk, or bk under the working directory /s, itself a source
\* directory; the sources added are directories (the one that holds the
\* root included), a file reached through a link to its directory, a link.
FrameRoots == {Abs(<<"bk">>), Rel(<<"bk">>)}
FrameInputs ==
    {Abs(<<"s">>), Abs(<<"s", "d">>), Abs(<<"s", "d", "r", "g">>),
     Abs(<<"s", "lf">>), Abs(<<"t">>)}

InitFrame ==
    /\ op = "init"
    /\ ret = NoRet
    /\ config_file = NoFile
    /\ options = <<>>
    /\ built = FALSE
    /\ opt = NoOpt
    /\ rule = NoRule
    /\ keys_definition = NoSchema
    /\ query = <<>>
    /\ fs = SourceTree
    /\ readonly = {}
    /\ root \in FrameRoots
    /\ bckup_dst = DirHandler(root)
    /\ connected = FALSE
    /\ src = <<>>
    /\ fs0 = SourceTree
    /\ cret = NoRet
    /\ added = <<>>

NextFrame ==
    \/ Connect
    \/ IsConnected
    \/ \E path \in FrameInputs : Add(path)

SpecFrame == InitFrame /\ [][NextFrame]_vars

\* ------------------------------- a run of the earlier main: SpecLegacyMain
\* The earlier main (tribud/tribud.py) reads the backup directory and the
\* inputs with item_search, constructs the handler, connects, and adds every
\* input; the values of connect and of add are dropped.

\* The value of a looked-up configuration item.
Item(v) == [kind |-> "value", value |-> v]
NoItem == [kind |-> "None", value |-> IntVal]
ItemRaise == [kind |-> "raise", value |-> IntVal]

\* ConfigManager.item_search / _item_search of the earlier model: the value
\* at the nested keys, None when a key is absent.  Below a value that is not
\* a mapping, `in` raises TypeError for an int and is false for a str or a
\* list that does not hold the key (no value of the configurations holds
\* one).
RECURSIVE item_search(_, _)
item_search(config_part, keys) ==
    LET hits == {i \in 1..Len(config_part) : config_part[i].k = Head(keys)}
    IN  IF hits = {} THEN NoItem
        ELSE LET v == config_part[CHOOSE i \in hits : TRUE].v
             IN  IF Len(keys) = 1 THEN Item(v)
                 ELSE IF v.type = "dict" THEN item_search(v.entries, Tail(keys))
                 ELSE IF v.type = "int" THEN ItemRaise
                 ELSE NoItem

\* The configurations of a run of the earlier main: the backup directory is
\* the string at archive/output.
LegacyConfigs ==
    {NoFile, [state |-> "ok", content |-> <<>>],
     [state |-> "ok",
      content |-> <<Entry("archive", DictVal(<<Entry("output", StrVal(DirBk))>>))>>]}
    \cup {[state |-> "ok",
           content |-> <<Entry("archive", DictVal(
               <<Entry("input", inp), Entry("output", StrVal(d))>>))>>] :
              inp \in {ListVal(l) : l \in SeqsUpTo({InG, InP, InN, InLf}, MaxInputs)}
                      \cup {StrVal(InG)},
              d \in {DirBk, DirBkB, DirRel}}

InitLegacyMain ==
    /\ op = "init"
    /\ ret = NoRet
    /\ config_file \in LegacyConfigs
    /\ options = <<>>
    /\ built = FALSE
    /\ opt = NoOpt
    /\ rule = NoRule
    /\ keys_definition = NoSchema
    /\ query = <<>>
    /\ FsIdle

bckdir == item_search(config_file.content, <<"archive", "output">>)
toarchive == item_search(config_file.content, <<"archive", "input">>)

\* tribudconfig = ConfigManager(confpath); bckdir, toarchive = item_search;
\* handler = DirHandler(bckdir); backup = Container(handler).
\* os.path.abspath of a value that is not a string raises TypeError.
LegacyLoad ==
    /\ op = "init"
    /\ op' = "legacy_load"
    /\ LET c == ConfigManager_legacy(config_file)
       IN  IF c.kind = "raise"
           THEN ret' = c /\ UNCHANGED <<root, bckup_dst>>
           ELSE IF bckdir.kind # "value" \/ bckdir.value.type # "str"
           THEN ret' = Raise("TypeError") /\ UNCHANGED <<root, bckup_dst>>
           ELSE /\ ret' = RetNone
                /\ root' = PathOf(bckdir.value.s)
                /\ bckup_dst' = DirHandler(root')
    /\ UNCHANGED <<fs, readonly, connected, src, fs0, cret, added>>
    /\ UNCHANGED cfgvars

\* backup.connect()
LegacyConnect ==
    /\ op = "legacy_load" /\ ret.kind # "raise"
    /\ op' = "legacy_connect"
    /\ LET o == connect(bckup_dst, fs)
       IN  /\ fs' = o.fs
           /\ ret' = IF o.exc = "" THEN RetNone ELSE Raise(o.exc)
           /\ cret' = Container_connect(ret')
           /\ connected' = (o.exc = "")
    /\ fs0' = fs
    /\ UNCHANGED <<readonly, root, bckup_dst, src, added>>
    /\ UNCHANGED cfgvars

\* for files in toarchive: backup.add(files) -- one turn of the loop.  None
\* and an int are not iterable (TypeError); the value of add is dropped, an
\* exception of add ends the run.  cret stays the value of backup.connect().
LegacyAdd ==
    /\ op \in {"legacy_connect", "legacy_add"} /\ ret.kind # "raise"
    /\ op' = "legacy_add"
    /\ fs0' = fs
    /\ IF toarchive.kind # "value" \/ toarchive.value.type \notin {"list", "str"}
       THEN /\ op = "legacy_connect"
            /\ ret' = Raise("TypeError")
            /\ UNCHANGED <<fs, src, added>>
       ELSE LET files == Files(toarchive.value)
            IN  /\ Len(added) < Len(files)
                /\ LET file == files[Len(added) + 1]
                   IN  \E o \in add(bckup_dst, fs, PathOf(file)) :
                           /\ fs' = o.fs
                           /\ ret' = Container_add(o.ret)
                           /\ src' = abspath(PathOf(file)).segs
                           /\ added' = Append(added, file)
    /\ UNCHANGED <<readonly, root, bckup_dst, connected, cret>>
    /\ UNCHANGED cfgvars

\* return 0, once the loop is over.
LegacyReturn ==
    /\ op \in {"legacy_connect", "legacy_add"} /\ ret.kind # "raise"
    /\ toarchive.kind = "value" /\ toarchive.value.type \in {"list", "str"}
    /\ Len(added) = Len(Files(toarchive.value))
    /\ op' = "legacy_return"
    /\ ret' = RetInt(0)
    /\ fs0' = fs
    /\ UNCHANGED <<fs, readonly, root, bckup_dst, connected, src, cret, added>>
    /\ UNCHANGED cfgvars

NextLegacyMain ==
    \/ LegacyLoad
    \/ LegacyConnect
    \/ LegacyAdd
    \/ LegacyReturn

SpecLegacyMain == InitLegacyMain /\ [][NextLegacyMain]_vars

\* ------------------------------------------------------------------ claims
Range(s) == {s[i] : i \in 1..Len(s)}
ReturnsList == ret.kind = "list"
Reported(path) == ReturnsList /\ path \in Range(ret.items)

\* The candidate path of a rule: its expected parent path, then its key.
Cand(r) == Append(r.def.parent, r.key)
Matches(o, r) == is_key(o, Cand(r)) = "True"
Rules == Range(keys_definition)
Opts == Range(options)

\* Fully compliant: every mandatory rule has a matching option, every
\* matched option's check returns OK (1), no option is left unmatched.
Compliant ==
    /\ \A r \in Rules : r.mandatory => \E o \in Opts : Matches(o, r)
    /\ \A r \in Rules : \A o \in Opts : Matches(o, r) => check(o, r.def) = RetInt(1)
    /\ \A o \in Opts : \E r \in Rules : Matches(o, r)

\* C1: sanitize returns the empty list if and only if the configuration is
\* fully compliant with the schema.
C1_EmptyIffCompliant ==
    op = "sanitize" => ((ReturnsList /\ ret.items = <<>>) <=> Compliant)

\* C2: the list returned by sanitize contains the declared full path of
\* every mandatory rule that no option of the configuration matches.
C2_MissingMandatoryReported ==
    op = "sanitize" =>
        \A r \in Rules :
            (r.mandatory /\ ~\E o \in Opts : Matches(o, r)) => Reported(Cand(r))

\* C3: the list returned by sanitize contains the full path of every option
\* that is present and whose check against its rule does not return OK.
C3_ViolationsReported ==
    op = "sanitize" =>
        \A r \in Rules : \A o \in Opts :
            (Matches(o, r) /\ check(o, r.def) # RetInt(1)) => Reported(o.option)

\* C4: the list returned by sanitize contains the full path of every option
\* that no rule of the schema matched and checked.
C4_UnmatchedReported ==
    op = "sanitize" =>
        \A o \in Opts : (~\E r \in Rules : Matches(o, r)) => Reported(o.option)

\* C5: check returns the outcome of the first failing stage in the order
\* type, parent, value: 2 (WRONG_TYPE) whenever the type differs, whatever
\* the parent and the check function; else 3 (WRONG_PARENT) whenever the
\* parent path differs, whatever the check function; else 4 (WRONG_VALUE)
\* when the check function returns false; and 1 (OK) only when the type and
\* the parent match and the check function returns true.
TypeOK5 == isinstance(opt.value, rule.type)
ParentOK5 == rule.parent = Front(opt.option)
C5_CheckStageOrder ==
    op = "check" =>
        /\ ~TypeOK5 => ret = RetInt(2)
        /\ (TypeOK5 /\ ~ParentOK5) => ret = RetInt(3)
        /\ (TypeOK5 /\ ParentOK5 /\ CallPred(rule.pred, opt.value) = "False")
              => ret = RetInt(4)
        /\ ret = RetInt(1)
              => (TypeOK5 /\ ParentOK5 /\ CallPred(rule.pred, opt.value) = "True")

\* A check of an option of the wrong type under the wrong parent, with a
\* check function that would accept its value, has returned 2.
C5_Witness ==
    /\ op = "check"
    /\ ~TypeOK5 /\ ~ParentOK5
    /\ CallPred(rule.pred, opt.value) = "True"
    /\ ret = RetInt(2)

\* C6: after connect() and add(P) of a regular file P, a regular file with
\* P's content exists at the destination root joined with every component
\* of P; when no component of P is a symbolic link, it is an entry of its
\* own under real directories of the root, and add returns normally.
\* (Every directory is writable in this specification, readonly = {}, and
\* the mirrored path is within the longest path the filesystem accepts.)
Mirror(p) == bckup_dst.segs \o p
SrcKind == IF lexists(fs0, src) THEN KindAt(fs0, The(LPath(fs0, src))) ELSE "none"
RealDirsBelowRoot(f, q) ==
    \A n \in 1..(Len(q) - 1) : IsDirAt(f, SubSeq(q, 1, n))
C6_FileMirrored ==
    (op = "add" /\ connected /\ SrcKind = "file" /\ Len(Mirror(src)) <= PathMax) =>
        /\ is_file(fs, Mirror(src))
        /\ fs[The(Stat(fs, Mirror(src)))].data = fs0[The(Stat(fs0, src))].data
        /\ Stat(fs0, src) = {src} =>
              /\ Mirror(src) \in DOMAIN fs
              /\ fs[Mirror(src)].kind = "file"
              /\ RealDirsBelowRoot(fs, Mirror(src))
              /\ ret = RetPath(Mirror(Front(src)))

\* add of the regular file /s/d/g after connect has put a regular file at
\* <root>/s/d/g, where none was before.
C6_Witness ==
    /\ op = "add" /\ connected
    /\ src = <<"s", "d", "g">>
    /\ SrcKind = "file"
    /\ Mirror(src) \notin DOMAIN fs0
    /\ Mirror(src) \in DOMAIN fs /\ fs[Mirror(src)] = FileE("G")

\* Every entry of the source (the source itself and what lies below it) has
\* its copy, same kind, content and link target, in the mirrored hierarchy.
Below(f, p) == {q \in DOMAIN f : Len(q) >= Len(p) /\ SubSeq(q, 1, Len(p)) = p}
AllBackedUp ==
    /\ src \in DOMAIN fs0
    /\ \A q \in Below(fs0, src) : Mirror(q) \in DOMAIN fs /\ fs[Mirror(q)] = fs0[q]

\* C7: add returns the list of the entries that could not be backed up, the
\* empty list exactly when every entry of the source was backed up.
C7_AddReturnsFailures ==
    op = "add" => (ReturnsList /\ (ret.items = <<>> <=> AllBackedUp))

\* C8: after add(P) of a symbolic link P, the entry at the destination root
\* joined with every component of P is a symbolic link with P's target.
C8_LinkMirroredAsLink ==
    (op = "add" /\ SrcKind = "link") =>
        /\ is_symlink(fs, Mirror(src))
        /\ fs[The(LPath(fs, Mirror(src)))].target = fs0[The(LPath(fs0, src))].target

\* C9: add of a special file copies nothing, changes nothing in the
\* filesystem, returns normally, and the returned failure list contains the
\* entry's destination path.
C9_SpecialFileRecorded ==
    (op = "add" /\ SrcKind = "fifo") =>
        /\ fs = fs0
        /\ ret.kind # "raise"
        /\ Reported(Mirror(src))

\* C10: when add copies a file or a symbolic link onto an entry that the
\* destination already has, no error propagates out of add, and the entry
\* is either replaced by the copy or recorded in the returned failure list;
\* add(P) a second time on an unchanged source succeeds.
C10_CollisionHandled ==
    (op = "add" /\ SrcKind \in {"file", "link"} /\ lexists(fs0, Mirror(src))) =>
        /\ ret.kind # "raise"
        /\ \/ /\ lexists(fs, Mirror(src))
              /\ fs[The(LPath(fs, Mirror(src)))] = fs0[The(LPath(fs0, src))]
           \/ Reported(Mirror(src))

\* What a caller takes for "ready" and for "not ready": main tests the value
\* of connect against None.
Ready(r) == r = RetBool(TRUE)
NotReady(r) == r = RetBool(FALSE) \/ r = RetNone

\* C12: when the destination root given to DirHandler is not an absolute
\* path, connect returns not-ready and changes nothing in the filesystem.
C12_RelativeRootRejected ==
    (op = "connect" /\ ~root.abs) => (NotReady(ret) /\ fs = fs0)

\* C13: for an absolute destination root, connect leaves the root and all
\* its ancestors as directories and reports ready; called when the root
\* already is a directory it changes nothing and raises nothing.
C13_ConnectIdempotent ==
    (op = "connect" /\ root.abs) =>
        /\ \A n \in 1..Len(root.segs) : IsDirAt(fs, SubSeq(root.segs, 1, n))
        /\ Ready(ret)
        /\ isdir(fs0, root.segs) => (fs = fs0 /\ ret.kind # "raise")

\* The filesystem part of C13 alone (what connect does, its value aside).
ConnectCreatesRootOnce ==
    (op = "connect" /\ root.abs) =>
        /\ \A n \in 1..Len(root.segs) : IsDirAt(fs, SubSeq(root.segs, 1, n))
        /\ ret = RetNone
        /\ isdir(fs0, root.segs) => fs = fs0

\* C14: add of a real directory whose tree holds symbolic links to the
\* directory itself or to an ancestor returns, and creates nothing deeper
\* than the real tree: every entry it creates is an ancestor of the mirrored
\* source or the mirror of an entry of the source tree, and when add returns
\* normally each such link has its mirror, a link with the same target.
IsPrefix(a, b) == Len(a) <= Len(b) /\ SubSeq(b, 1, Len(a)) = a
RecursiveLinks(f, p) ==
    {q \in Below(f, p) : f[q].kind = "link" /\ IsPrefix(f[q].target, Front(q))
                                            /\ isdir(f, f[q].target)}
C14_RecursiveLinksNotFollowed ==
    (op = "add" /\ src \in DOMAIN fs0 /\ fs0[src].kind = "dir") =>
        /\ \A x \in DOMAIN fs \ DOMAIN fs0 :
               \/ IsPrefix(x, Mirror(src))
               \/ \E q \in Below(fs0, src) : x = Mirror(q)
        /\ ret.kind # "raise" =>
               \A q \in RecursiveLinks(fs0, src) :
                   Mirror(q) \in DOMAIN fs /\ fs[Mirror(q)] = fs0[q]

\* add of the directory /s/d, which holds the link r to /s/d itself, has
\* returned normally and the mirror of r is a new link to /s/d.
C14_Witness ==
    /\ op = "add" /\ src = <<"s", "d">> /\ ret.kind = "path"
    /\ <<"s", "d", "r">> \in RecursiveLinks(fs0, src)
    /\ Mirror(<<"s", "d", "r">>) \notin DOMAIN fs0
    /\ fs[Mirror(<<"s", "d", "r">>)] = LinkE(<<"s", "d">>)

\* C15: flatten of a nested mapping holds exactly one triple (parent path,
\* key, value) per leaf that is not a mapping, a list-valued leaf being one
\* triple; the parent path is the chain of keys down to the leaf, and no two
\* triples have the same parent path and key.  The options of the manager
\* are these leaves.
RECURSIVE Leaves(_, _)
Leaves(m, parent) ==
    UNION {IF m[i].v.type = "dict"
           THEN Leaves(m[i].v.entries, Append(parent, m[i].k))
           ELSE {[parent |-> parent, key |-> m[i].k, value |-> m[i].v]} :
               i \in 1..Len(m)}
C15_FlattenLeaves ==
    (op = "ConfigManager" /\ built) =>
        LET out == flatten(config_file.content, <<>>, <<>>)
            leaves == Leaves(config_file.content, <<>>)
        IN  /\ Range(out) = leaves
            /\ Len(out) = Cardinality(leaves)
            /\ \A i, j \in 1..Len(out) :
                   i # j => Append(out[i].parent, out[i].key)
                               # Append(out[j].parent, out[j].key)
            /\ \A i \in 1..Len(out) : out[i].value.type # "dict"
            /\ Len(options) = Len(out)
            /\ \A i \in 1..Len(out) :
                   options[i] = [option |-> Append(out[i].parent, out[i].key),
                                 value |-> out[i].value]

\* A manager built from {"archive": {"input": ["/a"]}}: one option, the
\* list-valued leaf input under archive.
C15_Witness ==
    /\ op = "ConfigManager" /\ built
    /\ Len(options) = 1
    /\ options[1].option = <<"archive", "input">>
    /\ options[1].value = ListVal(<<AbsS>>)

\* C16: get_key returns None if and only if no option of the configuration
\* has the requested path as its full path, and otherwise returns the first
\* option, in flattening order, whose is_key is true for the path.
C16_LookupByFullPath ==
    op = "get_key" =>
        LET hits == {i \in 1..Len(options) : options[i].option = query}
        IN  /\ ret = RetNone <=> hits = {}
            /\ hits # {} =>
                   /\ ret = RetOpt
                   /\ opt = options[CHOOSE i \in hits : \A j \in hits : i <= j]

\* C19: constructing a ConfigManager raises an I/O error when the file
\* cannot be opened and a JSON decode error when it is malformed, produces
\* no instance then, and does not terminate the process.
C19_ConstructorErrors ==
    op \in {"ConfigManager", "ConfigManager_legacy"} =>
        /\ config_file.state = "missing" => ret = Raise("IOError")
        /\ config_file.state = "malformed" => ret = Raise("JSONDecodeError")
        /\ config_file.state # "ok" => ~built
        /\ ret.exc # "SystemExit"

\* C19 for the constructor of src/tribud/model.py alone.
ConstructRaisesDistinct ==
    op = "ConfigManager" =>
        /\ config_file.state = "missing" => ret = Raise("IOError")
        /\ config_file.state = "malformed" => ret = Raise("JSONDecodeError")
        /\ config_file.state # "ok" => ~built
        /\ config_file.state = "ok" => (built /\ ret = RetNone)

\* C20: Container is a pure facade: what Container.add, Container.connect
\* and Container.is_connected return is exactly what the handler's method
\* returned (or raised).
C20_ContainerFacade ==
    op \in {"add", "connect", "is_connected"} => cret = ret

\* C17: when the rule has no check function (None, as the log rule of
\* CONFIG_KEYS_DEFINITION), check of an option whose type and parent match
\* returns 1 (OK).
C17_NoPredicateIsOK ==
    (op = "check" /\ rule.pred = "None" /\ TypeOK5 /\ ParentOK5) => ret = RetInt(1)

\* C18: path_check of a string is true iff the string is an absolute path;
\* path_check of a list is true iff every element is an absolute path (the
\* empty list is compliant).  Stated where check has called path_check on
\* the option's value.
AllAbsolute(v) ==
    IF v.type = "str" THEN is_absolute(v.s)
    ELSE \A i \in 1..Len(v.items) : is_absolute(v.items[i])
C18_PathCheckStringsAndLists ==
    (op = "check" /\ rule.pred = "path_check" /\ TypeOK5 /\ ParentOK5
                 /\ opt.value.type \in {"str", "list"}) =>
        /\ path_check(opt.value) = (IF AllAbsolute(opt.value) THEN "True" ELSE "False")
        /\ ret = (IF AllAbsolute(opt.value) THEN RetInt(1) ELSE RetInt(4))

\* C11: in a run of main over a configuration with a backup directory and a
\* list of inputs, add is called for every configured input, in configured
\* order, whatever input fails, and main returns after reporting.
ConfiguredDir ==
    {l \in Leaves(config_file.content, <<>>) :
         l.parent = <<"archive", "output">> /\ l.key = "dir" /\ l.value.type = "str"}
ConfiguredInput ==
    {l \in Leaves(config_file.content, <<>>) :
         l.parent = <<"archive">> /\ l.key = "input" /\ l.value.type = "list"}
C11_EveryInputAdded ==
    (op = "main" /\ config_file.state = "ok" /\ ConfiguredDir # {}) =>
        \A l \in ConfiguredInput : added = l.value.items /\ ret = RetInt(0)

\* C21: in a run of main the destination is connected before any copy, and
\* no add is performed after a connect that reported not-ready (a value the
\* caller takes for not-ready, or a destination root that was not given as
\* an absolute path).
C21_NoAddAfterNotReady ==
    (op \in {"legacy_connect", "legacy_add", "legacy_return"}
        /\ (NotReady(cret) \/ ~root.abs)) => added = <<>>

\* C22: get_key called with only the final key of an option nested under
\* parents returns such an option, with the value get_key returns for the
\* option's full path.
C22_LookupByFinalKey ==
    (op = "get_key" /\ Len(query) = 1) =>
        LET nested == {i \in 1..Len(options) :
                           /\ Len(options[i].option) > 1
                           /\ Last(options[i].option) = query[1]}
        IN  nested # {} =>
                /\ ret = RetOpt
                /\ \E i \in nested :
                       /\ opt = options[i]
                       /\ get_value(opt)
                              = get_value(get_key(options, options[i].option).found)

\* C23: after connect() and add(D) of a directory D, every immediate child
\* of D that is a regular file, a symbolic link or a directory has its entry
\* in the mirrored directory, a copy of the file, a link with the same
\* target, a directory mirrored in turn, whether the mirrored directory
\* existed before the call or not.
C23_ChildrenMirrored ==
    (op = "add" /\ connected /\ src \in DOMAIN fs0 /\ fs0[src].kind = "dir") =>
        \A q \in Below(fs0, src) \ {src} :
            (\A n \in (Len(src) + 1)..Len(q) : fs0[SubSeq(q, 1, n)].kind # "fifo"
                /\ Len(Mirror(q)) <= PathMax)
            => (Mirror(q) \in DOMAIN fs /\ fs[Mirror(q)] = fs0[q])

\* C24: add of a directory whose mirrored destination does not exist yet
\* returns normally even when children cannot be copied, every other child
\* is mirrored, and the returned failure list holds the source paths of
\* exactly the children that were not; and when creating the destination
\* parent directory fails for lack of permission, add returns normally and
\* the failure is in the returned list.
Mirrored(q) == Mirror(q) \in DOMAIN fs /\ fs[Mirror(q)] = fs0[q]
DstParent == Mirror(dst_dirs(fs0, src))
C24_FailuresCollected ==
    /\ (op = "add" /\ src \in DOMAIN fs0 /\ fs0[src].kind = "dir"
            /\ ~exists(fs0, Mirror(src))
            /\ makedirs(fs0, Mirror(src), FALSE).exc = "") =>
           /\ ret.kind # "raise"
           /\ \A q \in Below(fs0, src) \ {src} :
                  /\ (fs0[q].kind # "fifo" /\ Len(Mirror(q)) <= PathMax) => Mirrored(q)
                  /\ Reported(q) <=> ~Mirrored(q)
    /\ (op = "add" /\ lexists(fs0, src)
            /\ makedirs(fs0, DstParent, TRUE).exc = "PermissionError") =>
           /\ ret.kind # "raise"
           /\ ReturnsList /\ ret.items # <<>>

\* C25: connect and add create or change entries only under the destination
\* root (and the directories leading to it): every entry that was in the
\* filesystem before the call and does not lie under the root is there
\* after it with the same kind, content and link target, whether the call
\* returned or raised, and every entry the call created lies under the root
\* or is a directory on the way to it.
UnderRoot(q) == IsPrefix(bckup_dst.segs, q)
====
